---- MODULE Spec2Model ----
(***************************************************************************)
(* A model of the single-server web crawler (src/crawler.py): the four URL *)
(* lists of WebCrawler, the run loop, crawl, the get_links generator and   *)
(* add_new_url.  The HTTP server, the HTML parser and the embedding model  *)
(* are the environment: every GET, HEAD and processing step draws its      *)
(* outcome from a small set.                                               *)
(*                                                                         *)
(* A Python string that is a URL or an href is modelled by the components  *)
(* urllib.parse splits it into (scheme, netloc, path, fragment); a path is *)
(* a file name 1..NumPaths in the server's single directory, 0 is the      *)
(* empty path.                                                             *)
(***************************************************************************)
EXTENDS Integers, Sequences, FiniteSets, TLC

\* ------------------------------------------------------------------ bounds
NumPaths == 3   \* distinct file names on a server
MaxLinks == 2   \* anchors on one fetched page
MaxServed == 5  \* anchors on all the pages the server serves during one run
MaxBatch == 2   \* records in one data_list handed to insert_data
MaxViewCalls == 3  \* calls of insert_or_update_view

Paths == 1..NumPaths

\* ----------------------------------------------------------- string values
Str(s, n, p, f) == [scheme |-> s, netloc |-> n, path |-> p, fragment |-> f]

\* Python's None (what link.get('href') returns for an anchor without href),
\* kept in the shape of the other values so that it compares with them.
None == Str("None", "", 0, "")

AbsUrl(h, p) == Str("https", h, p, "")
RelRef(p)    == Str("", "", p, "")
EmptyRef     == Str("", "", 0, "")
BadRef       == Str("", "", 0, "#not a url")

\* start_url of __main__
start_url == AbsUrl("x", 1)

\* the href values an anchor of a fetched page can carry
Hrefs == {AbsUrl("x", p) : p \in Paths} \cup {AbsUrl("other", 1)}
           \cup {RelRef(1), EmptyRef, BadRef, None}

RECURSIVE SeqsUpTo(_, _)
SeqsUpTo(S, n) == IF n = 0 THEN {<<>>}
                  ELSE LET shorter == SeqsUpTo(S, n - 1)
                       IN  shorter \cup {Append(q, x) : q \in {r \in shorter : Len(r) = n - 1}, x \in S}

\* the bodies session.get(url).text can return: the anchors of the page
Bodies == SeqsUpTo(Hrefs, MaxLinks)

\* Content-Type header values of a HEAD response, as their ';'-separated parts
HtmlType == <<"text/html", "charset=utf-8">>
PdfType  == <<"application/pdf">>
\* a response without Content-Type header, and a request that raised
NoContentType == <<"<no Content-Type>">>
RequestFailed == <<"<request failed>">>
HeadOutcomes  == {HtmlType, PdfType, NoContentType, RequestFailed}

\* validators.url(value): truthy for an absolute http(s) URL without blanks
validators_url(value) ==
    /\ value # None
    /\ value.scheme = "https"
    /\ value.netloc # ""
    /\ value.fragment = ""

\* urllib.parse.urljoin(base, ref)
urljoin(base, ref) ==
    IF ref = None \/ ref = EmptyRef THEN base
    ELSE IF ref.scheme # "" THEN ref
    ELSE IF ref.netloc # "" THEN [ref EXCEPT !.scheme = base.scheme]
    ELSE IF ref.path = 0 THEN [base EXCEPT !.fragment = ref.fragment]
    ELSE Str(base.scheme, base.netloc, ref.path, ref.fragment)

\* urlparse(url).netloc
netloc(u) == u.netloc

\* Python's `x in list`
In(x, list) == \E i \in 1..Len(list) : list[i] = x

\* list.count(x)
Count(x, list) == Cardinality({i \in 1..Len(list) : list[i] = x})

\* 'text/html' in headers['Content-Type']
IsHtml(ct) == \E i \in 1..Len(ct) : ct[i] = "text/html"

\* ------------------------------------------------------------------- state
VARIABLES
    urls_backlog,   \* WebCrawler.urls_backlog
    urls_visited,   \* WebCrawler.urls_visited
    urls_invalid,   \* WebCrawler.urls_invalid
    urls_non_html,  \* WebCrawler.urls_non_html
    page_results,   \* WebCrawler.page_results
    server_domain,  \* module-level server_domain
    pc,             \* position of the single control thread
    url,            \* run's local `url` (the dequeued URL)
    crawl_url,      \* crawl's local `url` (parameter, then loop variable)
    html_ok,        \* whether BeautifulSoup(html, 'html.parser') returns for the fetched html
    links,          \* anchors the get_links generator has not yet reached
    exc,            \* exception raised in the try block of this iteration
    dequeued,       \* history: the URLs popped from urls_backlog, in order
    enqueued,       \* history: the URLs put into urls_backlog, in order
    raised,         \* history: number of iterations whose crawl raised
    served,         \* environment: number of anchors served so far
    Website,        \* database.py: the rows of table Website
    Views,          \* database.py: the rows of table Views, in rowid order
    db_pc,          \* database.py: "idle", or "insert_data" inside its for loop
    data_list,      \* database.py: the records insert_data has not yet reached
    db_exc,         \* database.py: the exception that left the last call
    db_printed,     \* database.py: whether the last insert_website printed "already exists"
    view_calls      \* history: the keys passed to insert_or_update_view

crawler_vars == <<urls_backlog, urls_visited, urls_invalid, urls_non_html,
                  page_results, server_domain, pc, url, crawl_url, html_ok, links,
                  exc, dequeued, enqueued, raised, served>>

db_vars == <<Website, Views, db_pc, data_list, db_exc, db_printed, view_calls>>

vars == <<crawler_vars, db_vars>>

lists == <<urls_backlog, urls_visited, urls_invalid, urls_non_html>>

\* WebCrawler(urls=[start_url]) with server_domain = urlparse(start_url).netloc
Init ==
    /\ urls_backlog = <<start_url>>
    /\ urls_visited = <<>>
    /\ urls_invalid = <<>>
    /\ urls_non_html = <<>>
    /\ page_results = <<>>
    /\ server_domain = netloc(start_url)
    /\ pc = "loop"
    /\ url = None
    /\ crawl_url = None
    /\ html_ok = TRUE
    /\ links = <<>>
    /\ exc = "none"
    /\ dequeued = <<>>
    /\ enqueued = <<start_url>>
    /\ raised = 0
    /\ served = 0
    /\ Website = {}
    /\ Views = <<>>
    /\ db_pc = "idle"
    /\ data_list = <<>>
    /\ db_exc = "none"
    /\ db_printed = FALSE
    /\ view_calls = <<>>

\* ------------------------------------------------------------------ run
\* a run that takes the newest URL: self.urls_backlog.pop()
Dequeue_Lifo ==
    /\ pc = "loop"
    /\ urls_backlog # <<>>
    /\ url' = urls_backlog[Len(urls_backlog)]
    /\ urls_backlog' = SubSeq(urls_backlog, 1, Len(urls_backlog) - 1)
    /\ crawl_url' = urls_backlog[Len(urls_backlog)]
    /\ dequeued' = Append(dequeued, urls_backlog[Len(urls_backlog)])
    /\ pc' = "get"
    /\ UNCHANGED <<urls_visited, urls_invalid, urls_non_html, page_results,
                   server_domain, html_ok, links, exc, served,
                   enqueued, raised>>
    /\ UNCHANGED db_vars

\* while self.urls_backlog: url = self.urls_backlog.pop(0)
Dequeue ==
    /\ pc = "loop"
    /\ urls_backlog # <<>>
    /\ url' = Head(urls_backlog)
    /\ urls_backlog' = Tail(urls_backlog)
    /\ crawl_url' = Head(urls_backlog)
    /\ dequeued' = Append(dequeued, Head(urls_backlog))
    /\ pc' = "get"
    /\ UNCHANGED <<urls_visited, urls_invalid, urls_non_html, page_results,
                   server_domain, html_ok, links, exc, served,
                   enqueued, raised>>
    /\ UNCHANGED db_vars

\* the while condition is false: the final logging, then run returns
Finish ==
    /\ pc = "loop"
    /\ urls_backlog = <<>>
    /\ pc' = "done"
    /\ UNCHANGED <<urls_backlog, urls_visited, urls_invalid, urls_non_html,
                   page_results, server_domain, url, crawl_url, html_ok, links,
                   exc, dequeued, served,
                   enqueued, raised>>
    /\ UNCHANGED db_vars

\* a run without the try statement: the exception leaves run
OnRaise_Abort == "aborted"

\* where a raise inside self.crawl(url) lands: the except clause logs, then
\* the finally clause runs
OnRaise == "finally"

\* the append as the last statement of the try block instead of the finally
\* clause: a URL whose crawl raised is not recorded
Retire_OnlyOnSuccess ==
    /\ pc = "finally"
    /\ urls_visited' = IF exc = "none" THEN Append(urls_visited, url) ELSE urls_visited
    /\ pc' = "loop"
    /\ url' = None
    /\ crawl_url' = None
    /\ html_ok' = TRUE
    /\ links' = <<>>
    /\ exc' = "none"
    /\ raised' = IF exc = "none" THEN raised ELSE raised + 1
    /\ UNCHANGED <<urls_backlog, urls_invalid, urls_non_html, page_results,
                   server_domain, dequeued, served, enqueued>>
    /\ UNCHANGED db_vars

\* finally: self.urls_visited.append(url)
Retire ==
    /\ pc = "finally"
    /\ urls_visited' = Append(urls_visited, url)
    /\ pc' = "loop"
    /\ url' = None
    /\ crawl_url' = None
    /\ html_ok' = TRUE
    /\ links' = <<>>
    /\ exc' = "none"
    /\ raised' = IF exc = "none" THEN raised ELSE raised + 1
    /\ UNCHANGED <<urls_backlog, urls_invalid, urls_non_html, page_results,
                   server_domain, dequeued, served, enqueued>>
    /\ UNCHANGED db_vars

\* ---------------------------------------------------------------- crawl
\* html = self.get_url(url, session=s) returns a body; get_links(url, html)
\* creates the generator over its anchors, which the for loop then starts.
\* The three BeautifulSoup(html, 'html.parser') calls of one crawl get the
\* same text, so they all return or all raise; a text that does not parse
\* has no anchors
GetUrlOk ==
    /\ pc = "get"
    /\ \E body \in Bodies, parses \in BOOLEAN :
         /\ served + Len(body) <= MaxServed
         /\ parses \/ body = <<>>
         /\ html_ok' = parses
         /\ links' = body
         /\ served' = served + Len(body)
    /\ pc' = "parse"
    /\ UNCHANGED <<urls_backlog, urls_visited, urls_invalid, urls_non_html,
                   page_results, server_domain, url, crawl_url, exc, dequeued,
                   enqueued, raised>>
    /\ UNCHANGED db_vars

\* a failed GET handled by `continue` before the URL is recorded
GetUrlRaises_SkipsFinally ==
    /\ pc = "get"
    /\ exc' = "GetFailed"
    /\ pc' = "loop"
    /\ UNCHANGED <<urls_backlog, urls_visited, urls_invalid, urls_non_html,
                   page_results, server_domain, url, crawl_url, html_ok, links, dequeued, served,
                   enqueued, raised>>
    /\ UNCHANGED db_vars

\* session.get raises (timeout=0.1 or any other request failure)
GetUrlRaises ==
    /\ pc = "get"
    /\ exc' = "GetFailed"
    /\ pc' = OnRaise
    /\ UNCHANGED <<urls_backlog, urls_visited, urls_invalid, urls_non_html,
                   page_results, server_domain, url, crawl_url, html_ok, links, dequeued, served,
                   enqueued, raised>>
    /\ UNCHANGED db_vars

\* ------------------------------------------------------------ get_links
\* the path get_links ends up with for an href: joined with the page URL
\* when the href itself does not validate
Resolve(base, href) == IF ~validators_url(href) THEN urljoin(base, href) ELSE href

\* the generator starts: BeautifulSoup(html, 'html.parser') returns the tree
LinksParseOk ==
    /\ pc = "parse"
    /\ html_ok
    /\ pc' = "links"
    /\ UNCHANGED <<urls_backlog, urls_visited, urls_invalid, urls_non_html,
                   page_results, server_domain, url, crawl_url, html_ok, links, exc,
                   dequeued, served, enqueued, raised>>
    /\ UNCHANGED db_vars

\* the generator starts and BeautifulSoup raises: get_links has no try
\* statement, the exception leaves the for loop of crawl
LinksParseRaises ==
    /\ pc = "parse"
    /\ ~html_ok
    /\ exc' = "ParseError"
    /\ pc' = OnRaise
    /\ UNCHANGED <<urls_backlog, urls_visited, urls_invalid, urls_non_html,
                   page_results, server_domain, url, crawl_url, html_ok, links,
                   dequeued, served, enqueued, raised>>
    /\ UNCHANGED db_vars

\* the generator is resumed and has no anchor left: the for loop of crawl ends
LinksExhausted ==
    /\ pc = "links"
    /\ links = <<>>
    /\ pc' = "process"
    /\ UNCHANGED <<urls_backlog, urls_visited, urls_invalid, urls_non_html,
                   page_results, server_domain, url, crawl_url, html_ok, links, exc, dequeued, served,
                   enqueued, raised>>
    /\ UNCHANGED db_vars

\* the next anchor validates (possibly after the join): yield path, which
\* crawl binds to its own variable `url`
LinksYield ==
    /\ pc = "links"
    /\ links # <<>>
    /\ LET path == Resolve(url, Head(links))
       IN  /\ validators_url(path)
           /\ crawl_url' = path
    /\ links' = Tail(links)
    /\ html_ok' = html_ok
    /\ pc' = "admit"
    /\ UNCHANGED <<urls_backlog, urls_visited, urls_invalid, urls_non_html,
                   page_results, server_domain, url, exc, dequeued, served,
                   enqueued, raised>>
    /\ UNCHANGED db_vars

\* a get_links that yields the joined path without validating it again
LinksInvalid_Yields ==
    /\ pc = "links"
    /\ links # <<>>
    /\ LET path == Resolve(url, Head(links))
       IN  /\ ~validators_url(path)
           /\ crawl_url' = path
    /\ links' = Tail(links)
    /\ html_ok' = html_ok
    /\ pc' = "admit"
    /\ UNCHANGED <<urls_backlog, urls_visited, urls_invalid, urls_non_html,
                   page_results, server_domain, url, exc, dequeued, served,
                   enqueued, raised>>
    /\ UNCHANGED db_vars

\* the next anchor is still invalid after the join: self.urls_invalid.append(path)
LinksInvalid ==
    /\ pc = "links"
    /\ links # <<>>
    /\ LET path == Resolve(url, Head(links))
       IN  /\ ~validators_url(path)
           /\ urls_invalid' = Append(urls_invalid, path)
    /\ links' = Tail(links)
    /\ html_ok' = html_ok
    /\ pc' = "links"
    /\ UNCHANGED <<urls_backlog, urls_visited, urls_non_html, page_results,
                   server_domain, url, crawl_url, exc, dequeued, served,
                   enqueued, raised>>
    /\ UNCHANGED db_vars

\* validators.url(None) raises in the releases that do not catch the
\* TypeError of matching None; the other releases return a falsy value
\* (LinksYield / LinksInvalid)
LinksRaises ==
    /\ pc = "links"
    /\ links # <<>>
    /\ Head(links) = None
    /\ exc' = "TypeError"
    /\ pc' = OnRaise
    /\ UNCHANGED <<urls_backlog, urls_visited, urls_invalid, urls_non_html,
                   page_results, server_domain, url, crawl_url, html_ok, links, dequeued, served,
                   enqueued, raised>>
    /\ UNCHANGED db_vars

\* ---------------------------------------------------------- add_new_url
\* the condition without its domain test
IsNew_NoDomainTest(u) ==
    /\ ~In(u, urls_visited)
    /\ ~In(u, urls_backlog)
    /\ ~In(u, urls_invalid)

\* the condition without its urls_backlog test
IsNew_NoBacklogTest(u) ==
    /\ ~In(u, urls_visited)
    /\ ~In(u, urls_invalid)
    /\ netloc(u) = server_domain

\* the condition without its urls_visited test
IsNew_NoVisitedTest(u) ==
    /\ ~In(u, urls_backlog)
    /\ ~In(u, urls_invalid)
    /\ netloc(u) = server_domain

\* the condition of the outer if of add_new_url
IsNew(u) ==
    /\ ~In(u, urls_visited)
    /\ ~In(u, urls_backlog)
    /\ ~In(u, urls_invalid)
    /\ netloc(u) = server_domain

\* the outer condition is false: add_new_url returns without a request
AddNewUrlSkip ==
    /\ pc = "admit"
    /\ ~IsNew(crawl_url)
    /\ pc' = "links"
    /\ UNCHANGED <<urls_backlog, urls_visited, urls_invalid, urls_non_html,
                   page_results, server_domain, url, crawl_url, html_ok, links, exc, dequeued, served,
                   enqueued, raised>>
    /\ UNCHANGED db_vars

\* the outer condition holds: session.head(url) answers with outcome r.  A
\* failed request raises out of session.head, a response without the header
\* raises KeyError out of headers['Content-Type']; nothing in add_new_url or
\* crawl catches either
AddNewUrl(r) ==
    /\ pc = "admit"
    /\ IsNew(crawl_url)
    /\ IF r = RequestFailed
         THEN /\ exc' = "HeadFailed"
              /\ pc' = OnRaise
              /\ UNCHANGED <<urls_backlog, enqueued, urls_non_html>>
       ELSE IF r = NoContentType
         THEN /\ exc' = "KeyError"
              /\ pc' = OnRaise
              /\ UNCHANGED <<urls_backlog, enqueued, urls_non_html>>
       ELSE IF IsHtml(r)
         THEN /\ urls_backlog' = Append(urls_backlog, crawl_url)
              /\ enqueued' = Append(enqueued, crawl_url)
              /\ pc' = "links"
              /\ UNCHANGED <<urls_non_html, exc>>
       ELSE /\ urls_non_html' = Append(urls_non_html, crawl_url)
            /\ pc' = "links"
            /\ UNCHANGED <<urls_backlog, enqueued, exc>>
    /\ UNCHANGED <<urls_visited, urls_invalid, page_results, server_domain,
                   url, crawl_url, html_ok, links, dequeued, served, raised>>
    /\ UNCHANGED db_vars

\* ------------------------------------------------- processing of the page
\* the texts a record can hold for the page fetched from u: the joined h1
\* texts, the joined p texts, and the unparsed body
H1Text(u)  == [kind |-> "h1", of |-> u]
PText(u)   == [kind |-> "p", of |-> u]
RawBody(u) == [kind |-> "raw", of |-> u]

\* get_headers(html): the h1 texts, or html itself when BeautifulSoup raised
get_headers(u, parsed) == IF parsed THEN H1Text(u) ELSE RawBody(u)

\* get_content(html): the p texts, or html itself when BeautifulSoup raised
get_content(u, parsed) == IF parsed THEN PText(u) ELSE RawBody(u)

\* the record crawl builds from the body fetched for run's url: 'url' is
\* crawl's variable `url` at that point
PageRecord(h1_parsed, p_parsed) ==
    [title   |-> get_headers(url, h1_parsed),
     content |-> get_content(url, p_parsed),
     url     |-> crawl_url]

\* get_headers, get_content and calc_vector return: page_results.append
ProcessOk ==
    /\ pc = "process"
    /\ page_results' = Append(page_results, PageRecord(html_ok, html_ok))
    /\ pc' = "finally"
    /\ UNCHANGED <<urls_backlog, urls_visited, urls_invalid, urls_non_html,
                   server_domain, url, crawl_url, html_ok, links, exc, dequeued, served,
                   enqueued, raised>>
    /\ UNCHANGED db_vars

\* vectorizer.run raises
ProcessRaises ==
    /\ pc = "process"
    /\ exc' = "VectorizerError"
    /\ pc' = OnRaise
    /\ UNCHANGED <<urls_backlog, urls_visited, urls_invalid, urls_non_html,
                   page_results, server_domain, url, crawl_url, html_ok, links, dequeued, served,
                   enqueued, raised>>
    /\ UNCHANGED db_vars

Next ==
    \/ Dequeue
    \/ Finish
    \/ Retire
    \/ GetUrlOk
    \/ GetUrlRaises
    \/ LinksParseOk
    \/ LinksParseRaises
    \/ LinksExhausted
    \/ LinksYield
    \/ LinksInvalid
    \/ LinksRaises
    \/ AddNewUrlSkip
    \/ \E r \in HeadOutcomes : AddNewUrl(r)
    \/ ProcessOk
    \/ ProcessRaises

Spec == Init /\ [][Next]_vars

\* the interpreter keeps executing the single thread until run returns
FairSpec == Spec /\ WF_vars(Next)

TypeOK ==
    /\ pc \in {"loop", "get", "parse", "links", "admit", "process", "finally", "done"}
    /\ exc \in {"none", "GetFailed", "ParseError", "TypeError", "HeadFailed", "KeyError", "VectorizerError"}
    /\ served \in 0..MaxServed
    /\ Len(links) <= MaxLinks
    /\ html_ok \in BOOLEAN

\* ============================================================ database.py
\* WebsiteDatabase over one connection: the tables Website (url PRIMARY KEY)
\* and Views (no key), insert_data with insert_website, and
\* insert_or_update_view.  Calls are made one after the other.
DbUrls   == {"u1", "u2"}
DbTitles == {"t1", "t2"}
Weeks    == {1, 2}
Years    == {2024}

\* the dicts of a data_list: with 'title' and 'url', or without 'url'
DataDicts == [title : DbTitles, url : DbUrls] \cup [title : DbTitles]
DataLists == SeqsUpTo(DataDicts, MaxBatch)

\* dict.get(key, default)
Get(data, key, default) == IF key \in DOMAIN data THEN data[key] ELSE default

\* the row insert_website binds for a dict of data_list
WebsiteRow(data) == [title |-> Get(data, "title", ""), url |-> Get(data, "url", "")]

\* the PRIMARY KEY constraint: INSERT raises sqlite3.IntegrityError
KeyExists(u) == \E row \in Website : row.url = u

\* db.insert_data(data_list) is called
InsertDataCall ==
    /\ db_pc = "idle"
    /\ \E list \in DataLists : data_list' = list
    /\ db_pc' = "insert_data"
    /\ db_exc' = "none"
    /\ db_printed' = FALSE
    /\ UNCHANGED <<Website, Views, view_calls>>
    /\ UNCHANGED crawler_vars

\* an insert_website without the try statement (the first definition of the
\* class): the IntegrityError leaves insert_data
InsertWebsite_NoCatch ==
    /\ db_pc = "insert_data"
    /\ data_list # <<>>
    /\ LET row == WebsiteRow(Head(data_list))
       IN  IF KeyExists(row.url)
             THEN /\ db_exc' = "IntegrityError"
                  /\ db_pc' = "idle"
                  /\ data_list' = <<>>
                  /\ UNCHANGED <<Website, db_printed>>
             ELSE /\ Website' = Website \cup {row}
                  /\ data_list' = Tail(data_list)
                  /\ db_printed' = FALSE
                  /\ UNCHANGED <<db_pc, db_exc>>
    /\ UNCHANGED <<Views, view_calls>>
    /\ UNCHANGED crawler_vars

\* one iteration of the for loop of insert_data: insert_website (the second
\* definition of the class, which is the one in effect) inserts the row, or
\* catches the IntegrityError of a url that exists and prints
InsertWebsite ==
    /\ db_pc = "insert_data"
    /\ data_list # <<>>
    /\ LET row == WebsiteRow(Head(data_list))
       IN  IF KeyExists(row.url)
             THEN /\ db_printed' = TRUE
                  /\ UNCHANGED Website
             ELSE /\ Website' = Website \cup {row}
                  /\ db_printed' = FALSE
    /\ data_list' = Tail(data_list)
    /\ UNCHANGED <<Views, db_pc, db_exc, view_calls>>
    /\ UNCHANGED crawler_vars

\* the for loop of insert_data is over
InsertDataReturn ==
    /\ db_pc = "insert_data"
    /\ data_list = <<>>
    /\ db_pc' = "idle"
    /\ UNCHANGED <<Website, Views, data_list, db_exc, db_printed, view_calls>>
    /\ UNCHANGED crawler_vars

\* the rows SELECT ... WHERE url = ? AND week = ? AND year = ? matches
Matching(u, w, y) ==
    {i \in 1..Len(Views) : Views[i].url = u /\ Views[i].week = w /\ Views[i].year = y}

\* find_one_view: cursor.fetchone(), the first matching row
FirstMatch(u, w, y) == CHOOSE i \in Matching(u, w, y) : \A j \in Matching(u, w, y) : i <= j

\* an insert_or_update_view that does not look for the row first
InsertOrUpdateView_AlwaysInsert(u, w, y) ==
    /\ db_pc = "idle"
    /\ Len(view_calls) < MaxViewCalls
    /\ Views' = Append(Views, [url |-> u, week |-> w, year |-> y, views |-> 1])
    /\ view_calls' = Append(view_calls, <<u, w, y>>)
    /\ UNCHANGED <<Website, db_pc, data_list, db_exc, db_printed>>
    /\ UNCHANGED crawler_vars

\* insert_or_update_view(url, week, year): update_views sets the new count
\* in every matching row, insert_view appends a row with views = 1
InsertOrUpdateView(u, w, y) ==
    /\ db_pc = "idle"
    /\ Len(view_calls) < MaxViewCalls
    /\ IF Matching(u, w, y) # {}
         THEN LET new_views == Views[FirstMatch(u, w, y)].views + 1
              IN  Views' = [i \in 1..Len(Views) |->
                               IF i \in Matching(u, w, y)
                                 THEN [Views[i] EXCEPT !.views = new_views]
                                 ELSE Views[i]]
         ELSE Views' = Append(Views, [url |-> u, week |-> w, year |-> y, views |-> 1])
    /\ view_calls' = Append(view_calls, <<u, w, y>>)
    /\ UNCHANGED <<Website, db_pc, data_list, db_exc, db_printed>>
    /\ UNCHANGED crawler_vars

DbNext ==
    \/ InsertDataCall
    \/ InsertWebsite
    \/ InsertDataReturn
    \/ \E u \in DbUrls, w \in Weeks, y \in Years : InsertOrUpdateView(u, w, y)

\* a client of WebsiteDatabase('data.db') on fresh tables
DbSpec == Init /\ [][DbNext]_vars

\* ================================================================= claims
\* the URLs that occur in some list, and the URL lists as a tuple of four
Elems(list) == {list[i] : i \in 1..Len(list)}
Partitions == <<urls_backlog, urls_visited, urls_invalid, urls_non_html>>
Listed == UNION {Elems(Partitions[k]) : k \in 1..4}
InAnyPartition(u) == \E k \in 1..4 : In(u, Partitions[k])

\* C1: in every reachable state of run no URL is a member of more than one
\* of urls_backlog, urls_visited, urls_invalid and urls_non_html.
C1_PartitionsDisjoint ==
    \A u \in Listed : Cardinality({k \in 1..4 : In(u, Partitions[k])}) <= 1

\* C2: every URL is dequeued and fetched at most once, so urls_visited never
\* contains the same URL twice.
C2_NoDuplicateVisits ==
    /\ \A u \in Elems(dequeued) : Count(u, dequeued) <= 1
    /\ \A u \in Elems(urls_visited) : Count(u, urls_visited) <= 1

C4_NoReadmission ==
    [][\A u \in Elems(urls_visited) :
          Count(u, urls_backlog') <= Count(u, urls_backlog)]_vars

\* C4 witness: add_new_url has returned for a candidate, other than the page
\* itself, that only the urls_visited test kept out of the backlog.
C4_Witness ==
    /\ pc = "links"
    /\ crawl_url # url
    /\ In(crawl_url, urls_visited)
    /\ ~In(crawl_url, urls_backlog)
    /\ ~In(crawl_url, urls_invalid)
    /\ netloc(crawl_url) = server_domain

\* C5: when the GET of the dequeued URL raises, no record is appended in
\* that iteration, the URL is appended to urls_visited, and the loop goes on
\* to dequeue the head of the backlog.
C5_FetchFailurePath ==
    [][/\ (pc = "get" => page_results' = page_results)
       /\ (exc' = "GetFailed" /\ exc = "none" => pc = "get" /\ pc' = "finally")
       /\ (exc = "GetFailed" =>
              /\ pc = "finally"
              /\ page_results' = page_results
              /\ urls_visited' = Append(urls_visited, url)
              /\ urls_backlog' = urls_backlog
              /\ pc' = "loop")
       /\ (pc = "loop" /\ urls_backlog # <<>> =>
              pc' = "get" /\ url' = Head(urls_backlog))]_vars

\* C5 witness: a GET has raised while further URLs wait in the backlog.
C5_Witness ==
    /\ exc = "GetFailed"
    /\ pc = "finally"
    /\ urls_backlog # <<>>
    /\ urls_visited # <<>>

\* C6: a header request of add_new_url that fails or answers without
\* Content-Type (every outcome that does not enqueue the candidate) records
\* the candidate in urls_non_html and raises nothing, so that crawl goes on
\* with the next anchor.
C6_ClassificationFailureIsNonHtml ==
    [][pc = "admit" /\ IsNew(crawl_url) /\ urls_backlog' = urls_backlog =>
          /\ urls_non_html' = Append(urls_non_html, crawl_url)
          /\ exc' = "none"
          /\ pc' = "links"]_vars

\* C7: the record crawl appends carries in 'url' the URL that run dequeued.
C7_RecordCarriesFetchedUrl ==
    [][Len(page_results') > Len(page_results) =>
          page_results'[Len(page_results')].url = url]_vars

\* C8: every iteration appends the URL it dequeued to urls_visited exactly
\* once before the next dequeue, on every exit path of crawl; at the loop
\* test and after the loop urls_visited is the sequence of dequeued URLs.
C8_RetiredOncePerDequeue ==
    /\ pc \in {"loop", "done"} => urls_visited = dequeued
    /\ pc \notin {"loop", "done"} => dequeued = Append(urls_visited, url)

\* C8 witness: the loop has exited after iterations that returned normally
\* and iterations that raised.
C8_Witness ==
    /\ pc = "done"
    /\ page_results # <<>>
    /\ Len(dequeued) > Len(page_results)
    /\ Len(urls_visited) = Len(dequeued)

\* C9: add_new_url on a URL that is already in one of the four lists leaves
\* the four lists unchanged.
C9_AdmissionIdempotent ==
    [][pc = "admit" /\ InAnyPartition(crawl_url) => UNCHANGED lists]_vars

\* C10: an anchor whose href is missing or empty appends an entry to
\* urls_invalid and yields nothing.
C10_EmptyHrefIsInvalid ==
    [][pc = "links" /\ links # <<>> /\ Head(links) \in {None, EmptyRef} =>
          /\ Len(urls_invalid') = Len(urls_invalid) + 1
          /\ pc' = "links"]_vars
\* the URL run has dequeued and not yet retired
InFlight == IF pc \in {"loop", "done"} THEN {} ELSE {url}

\* C11: every discovered URL, the one being crawled included, is in exactly
\* one of urls_backlog, urls_visited, urls_invalid and urls_non_html.
C11_ExactlyOnePartition ==
    \A u \in Listed \cup InFlight :
        Cardinality({k \in 1..4 : In(u, Partitions[k])}) = 1

\* C12: a valid URL whose host is not the seed's host is in none of the four
\* lists, in any state up to the end of the run.
C12_CrossDomainDropped ==
    \A u \in Listed : validators_url(u) => netloc(u) = server_domain

\* C12 witness: add_new_url has returned for a valid candidate of another
\* host, and the candidate is in no list.
C12_Witness ==
    /\ pc = "links"
    /\ validators_url(crawl_url)
    /\ netloc(crawl_url) # server_domain
    /\ ~InAnyPartition(crawl_url)

\* C14: a URL that is in urls_non_html or urls_invalid is not appended to
\* urls_backlog afterwards, and is not dequeued for a GET.
C14_ClassifiedNeverEnqueued ==
    [][\A u \in Elems(urls_non_html) \cup Elems(urls_invalid) :
          /\ Count(u, urls_backlog') <= Count(u, urls_backlog)
          /\ Count(u, dequeued') <= Count(u, dequeued)]_vars

\* C15: an anchor whose href is still invalid after the join with the page
\* URL appends that path to urls_invalid and is not yielded; no entry of
\* urls_invalid is ever in urls_backlog or dequeued.
C15_MalformedHrefIsInvalid ==
    [][/\ (pc = "links" /\ links # <<>>
             /\ ~validators_url(Resolve(url, Head(links))) =>
              /\ urls_invalid' = Append(urls_invalid, Resolve(url, Head(links)))
              /\ urls_backlog' = urls_backlog
              /\ pc' = "links")
       /\ \A u \in Elems(urls_invalid') :
              ~In(u, urls_backlog') /\ ~In(u, dequeued')]_vars

\* C15 witness: get_links has recorded a malformed href and crawl has gone on
\* to enqueue a later anchor of the same page.
C15_Witness ==
    /\ pc = "links"
    /\ urls_invalid # <<>>
    /\ ~validators_url(urls_invalid[Len(urls_invalid)])
    /\ urls_backlog # <<>>

\* C19: in a run started from the single seed no URL is dequeued more than
\* twice.
C19_DequeuedAtMostTwice ==
    \A u \in Elems(dequeued) : Count(u, dequeued) <= 2

\* C19 witness: a URL has been dequeued a second time, after its first
\* retirement.
C19_Witness ==
    /\ pc = "get"
    /\ Count(url, dequeued) = 2
    /\ In(url, urls_visited)

\* C20: urls_backlog never holds the same URL at two positions.
C20_BacklogHasNoDuplicates ==
    \A u \in Elems(urls_backlog) : Count(u, urls_backlog) <= 1

\* C20 witness: add_new_url has returned for a candidate that is the head of
\* a backlog of several URLs, so it was in the backlog before the call.
C20_Witness ==
    /\ pc = "links"
    /\ Len(urls_backlog) >= 2
    /\ crawl_url = urls_backlog[1]
\* C16: URLs are dequeued in the order in which they were put into
\* urls_backlog, the seed first; page_results grows only at its tail, by one
\* record during the iteration of the page it is for, and holds one record
\* per dequeue whose crawl did not raise.
C16_FifoOrder ==
    [][/\ enqueued' = dequeued' \o urls_backlog'
       /\ (page_results' # page_results =>
              /\ pc = "process"
              /\ Len(page_results') = Len(page_results) + 1
              /\ SubSeq(page_results', 1, Len(page_results)) = page_results)
       /\ Len(page_results') = (Len(urls_visited') - raised')
              + (IF pc' = "finally" /\ exc' = "none" THEN 1 ELSE 0)]_vars

\* C16 witness: the second of two waiting URLs has been dequeued after the
\* first, in a run with a recorded page and a page whose crawl raised.
C16_Witness ==
    /\ pc = "get"
    /\ Len(dequeued) >= 3
    /\ dequeued[Len(dequeued) - 1] # dequeued[Len(dequeued)]
    /\ enqueued[Len(dequeued)] = url
    /\ urls_backlog # <<>>
    /\ page_results # <<>>
    /\ raised >= 1
\* C13: a parse failure of a fetched page does not reach run's except
\* clause: the field falls back to the raw body and the iteration ends with
\* a record appended for the page.
C13_ParseFailureKeepsRecord ==
    [][pc = "finally" /\ exc = "ParseError" =>
          /\ page_results # <<>>
          /\ page_results[Len(page_results)].title = RawBody(url)]_vars
\* C17: insert_data does not raise on a record whose url exists in Website:
\* the record is skipped, the stored rows stay as they are and the loop goes
\* on; a record with a new url is inserted.  Website never holds two rows
\* with one url.
C17_InsertToleratesCollisions ==
    [][/\ (db_pc = "insert_data" /\ data_list # <<>> =>
              /\ db_exc' = "none"
              /\ db_pc' = "insert_data"
              /\ data_list' = Tail(data_list)
              /\ Website' = IF KeyExists(WebsiteRow(Head(data_list)).url)
                              THEN Website
                              ELSE Website \cup {WebsiteRow(Head(data_list))})
       /\ \A r1 \in Website', r2 \in Website' : r1.url = r2.url => r1 = r2]_vars

\* C17 witness: insert_website has skipped a record whose url exists, and
\* the batch goes on with a record whose url is new.
C17_Witness ==
    /\ db_pc = "insert_data"
    /\ db_printed
    /\ data_list # <<>>
    /\ ~KeyExists(WebsiteRow(Head(data_list)).url)

\* C18: after any sequence of insert_or_update_view calls on empty tables
\* there is exactly one Views row for every key that was passed, its views
\* is the number of calls with that key, and no other row.
C18_ViewCountersUnique ==
    \A u \in DbUrls, w \in Weeks, y \in Years :
        LET calls == Count(<<u, w, y>>, view_calls)
        IN  /\ Cardinality(Matching(u, w, y)) = (IF calls > 0 THEN 1 ELSE 0)
            /\ \A i \in Matching(u, w, y) : Views[i].views = calls

\* C18 witness: one key has been passed twice and another key once.
C18_Witness ==
    /\ Len(view_calls) = 3
    /\ Len(Views) = 2
    /\ \E i \in 1..2 : Views[i].views = 2
====
